---- MODULE Spec2Model ----
(***************************************************************************)
(* Model of dependency_graph.py: regex extraction of object names and      *)
(* @@reference@@ markers from SQL text, construction of the dependency     *)
(* graph, pruning of table nodes and the printed topological order.        *)
(*                                                                         *)
(* A Python str is a sequence of one-character strings.  None is the       *)
(* value Null, which is no str.                                            *)
(***************************************************************************)
EXTENDS Integers, Sequences, FiniteSets, TLC

\* ------------------------------------------------------------------------
\* Bounds of the explored inputs
\* ------------------------------------------------------------------------
\* total number of @@id@@ markers over the view files of one run
MaxMarkers == 2
\* number of pieces (markers and separators) of a text given to get_identifiers
MaxPieces == 4

\* ------------------------------------------------------------------------
\* Characters and the character classes of the regular expressions
\* ------------------------------------------------------------------------
UpperCase == {"A", "B", "C", "E", "I", "L", "N", "O", "P", "R", "T", "V", "W"}
LowerCase == {"a", "b", "e", "n", "o"}
Digits == {"0", "1"}
\* \w of the re module (and \W, its complement)
WordChar == UpperCase \cup LowerCase \cup Digits \cup {"_"}
\* [a-zA-Z0-9_.]
NameChar == WordChar \cup {"."}
\* [a-z.0-9_^@]
IdChar == LowerCase \cup Digits \cup {".", "_", "^", "@"}

Null == <<"None">>

Range(s) == {s[i] : i \in 1..Len(s)}

\* s[i..] starts with the literal lit
StartsWith(s, i, lit) ==
    /\ i + Len(lit) - 1 <= Len(s)
    /\ \A k \in 1..Len(lit) : s[i + k - 1] = lit[k]

\* first index >= i whose character is not in class (Len(s)+1 when none)
RECURSIVE RunEnd(_, _, _)
RunEnd(s, i, class) ==
    IF i <= Len(s) /\ s[i] \in class THEN RunEnd(s, i + 1, class) ELSE i

\* first index >= i whose character is a word character: end of a \W run
RECURSIVE NonWordEnd(_, _)
NonWordEnd(s, i) ==
    IF i <= Len(s) /\ s[i] \notin WordChar THEN NonWordEnd(s, i + 1) ELSE i

CREATE == <<"C", "R", "E", "A", "T", "E">>
OR == <<"O", "R">>
REPLACE == <<"R", "E", "P", "L", "A", "C", "E">>
TABLE == <<"T", "A", "B", "L", "E">>
VIEW == <<"V", "I", "E", "W">>

\* literal \W+ : the index after the literal and the separator run that
\* follows it, 0 when s[i..] does not match.  What follows \W+ in both
\* patterns starts with a word character, so only the whole run can match.
LitSep(s, i, lit) ==
    IF i > 0 /\ StartsWith(s, i, lit) /\ NonWordEnd(s, i + Len(lit)) > i + Len(lit)
    THEN NonWordEnd(s, i + Len(lit))
    ELSE 0

\* kw \W+ (?P<name>[a-zA-Z0-9_.]+) at i: the \W+ run is greedy and gives
\* characters back until a name character (a dot can be either) follows.
\* The captured name, Null when there is no match.
KwName(s, i, kw) ==
    IF i > 0 /\ StartsWith(s, i, kw)
    THEN LET k == i + Len(kw)
             starts == {p \in (k + 1)..Len(s) :
                           /\ \A q \in k..(p - 1) : s[q] \notin WordChar
                           /\ s[p] \in NameChar}
         IN  IF starts = {} THEN Null
             ELSE LET p == CHOOSE x \in starts : \A y \in starts : y <= x
                  IN  SubSeq(s, p, RunEnd(s, p, NameChar) - 1)
    ELSE Null

\* CREATE\W+(OR\W+REPLACE\W+)?kw\W+(name) anchored at i
MatchCreateAt(s, i, kw) ==
    LET c == LitSep(s, i, CREATE)
        r == LitSep(s, LitSep(s, c, OR), REPLACE)
        withOr == KwName(s, r, kw)
    IN  IF withOr # Null THEN withOr ELSE KwName(s, c, kw)

\* re.search: the leftmost position with a match
RECURSIVE SearchCreate(_, _, _)
SearchCreate(s, i, kw) ==
    IF i > Len(s) THEN Null
    ELSE IF MatchCreateAt(s, i, kw) # Null THEN MatchCreateAt(s, i, kw)
    ELSE SearchCreate(s, i + 1, kw)

get_table_name(sql) == SearchCreate(sql, 1, TABLE)

get_view_name(sql) == SearchCreate(sql, 1, VIEW)

\* str.replace("@@", ""): non-overlapping occurrences, left to right
RECURSIVE StripMarkers(_, _)
StripMarkers(s, i) ==
    IF i > Len(s) THEN <<>>
    ELSE IF i < Len(s) /\ s[i] = "@" /\ s[i + 1] = "@" THEN StripMarkers(s, i + 2)
    ELSE <<s[i]>> \o StripMarkers(s, i + 1)

\* @@[a-z.0-9_^@]+@@ anchored at i: the index of the last character of the
\* match, 0 when there is none.  The class run is greedy and contains "@",
\* so the closing @@ is the last pair of "@" inside the run.
MarkerEnd(s, i) ==
    IF StartsWith(s, i, <<"@", "@">>)
    THEN LET e == RunEnd(s, i + 2, IdChar)
             closes == {c \in (i + 3)..(e - 2) : s[c] = "@" /\ s[c + 1] = "@"}
         IN  IF closes = {} THEN 0
             ELSE (CHOOSE x \in closes : \A y \in closes : y <= x) + 1
    ELSE 0

\* re.findall: non-overlapping matches, scanning left to right
RECURSIVE FindMarkers(_, _)
FindMarkers(s, i) ==
    IF i > Len(s) THEN <<>>
    ELSE IF MarkerEnd(s, i) > 0
         THEN <<SubSeq(s, i, MarkerEnd(s, i))>> \o FindMarkers(s, MarkerEnd(s, i) + 1)
         ELSE FindMarkers(s, i + 1)

get_identifiers(sql) ==
    LET matches == FindMarkers(sql, 1)
    IN  [k \in 1..Len(matches) |-> StripMarkers(matches[k], 1)]

\* f'"{text}"' : None is formatted as the four letters None
quote(text) ==
    <<"\"">> \o (IF text = Null THEN <<"N", "o", "n", "e">> ELSE text) \o <<"\"">>

color_map == [table |-> "blue", view |-> "red"]


\* ------------------------------------------------------------------------
\* networkx.DiGraph as the script uses it: nodes in insertion order, one
\* attribute record per node, a set of directed edges
\* ------------------------------------------------------------------------
EmptyGraph == [node |-> <<>>, attr |-> <<>>, edge |-> {}]

Nodes(g) == Range(g.node)

\* index of node n in g.node
IndexOf(g, n) == CHOOSE k \in 1..Len(g.node) : g.node[k] = n

Attr(g, n) == g.attr[IndexOf(g, n)]

\* a plausible slip: every call appends a node
add_node_append(g, n, type, color) ==
    [g EXCEPT !.node = Append(@, n),
              !.attr = Append(@, [type |-> type, color |-> color])]

\* DiGraph.add_node(n, type=..., color=...): a new node is appended, an
\* existing node has its attributes updated
add_node(g, n, type, color) ==
    IF n \in Nodes(g)
    THEN [g EXCEPT !.attr[IndexOf(g, n)] = [type |-> type, color |-> color]]
    ELSE [g EXCEPT !.node = Append(@, n),
                   !.attr = Append(@, [type |-> type, color |-> color])]

\* DiGraph.add_edge(u, v): both ends are nodes already when the script calls it
add_edge(g, u, v) == [g EXCEPT !.edge = @ \cup {<<u, v>>}]

\* DiGraph.remove_nodes_from(ns): the nodes, their attributes and every edge
\* that touches one of them
remove_nodes_from(g, ns) ==
    LET keep == {k \in 1..Len(g.node) : g.node[k] \notin ns}
        pos(k) == Cardinality({j \in keep : j <= k})
        at(i) == CHOOSE k \in keep : pos(k) = i
    IN  [node |-> [i \in 1..Cardinality(keep) |-> g.node[at(i)]],
         attr |-> [i \in 1..Cardinality(keep) |-> g.attr[at(i)]],
         edge |-> {e \in g.edge : e[1] \notin ns /\ e[2] \notin ns}]

\* ------------------------------------------------------------------------
\* generate_dependency_graph
\* ------------------------------------------------------------------------
\* [get_table_name(sql) for sql in table_sql]: a failed extraction stays in
\* the list as None
table_names_of(table_sql) ==
    [k \in 1..Len(table_sql) |-> get_table_name(table_sql[k])]

\* "table" if name in table_names else "view"
node_type_of(name, table_names) ==
    IF name \in Range(table_names) THEN "table" ELSE "view"

\* the inner loop over get_identifiers(sql), from the k-th identifier on
RECURSIVE AddIdentifiers(_, _, _, _, _)
AddIdentifiers(g, ids, k, view_name, table_names) ==
    IF k > Len(ids) THEN g
    ELSE LET node_type == node_type_of(ids[k], table_names)
             g1 == add_node(g, quote(ids[k]), node_type, color_map[node_type])
             g2 == add_edge(g1, quote(ids[k]), quote(view_name))
         IN  AddIdentifiers(g2, ids, k + 1, view_name, table_names)

\* the outer loop over view_sql, from the k-th text on
RECURSIVE AddViews(_, _, _, _)
AddViews(g, view_sql, k, table_names) ==
    IF k > Len(view_sql) THEN g
    ELSE LET view_name == get_view_name(view_sql[k])
             node_type == node_type_of(view_name, table_names)
             g1 == add_node(g, quote(view_name), node_type, color_map[node_type])
             g2 == AddIdentifiers(g1, get_identifiers(view_sql[k]), 1,
                                  view_name, table_names)
         IN  AddViews(g2, view_sql, k + 1, table_names)

generate_dependency_graph(table_sql, view_sql) ==
    AddViews(EmptyGraph, view_sql, 1, table_names_of(table_sql))

\* a plausible slip: the test never matches (a misspelt type)
TableNodesNone(g) == {n \in Nodes(g) : Attr(g, n).type = "tables"}

\* [node for node in graph.nodes if graph.nodes[node]["type"] == "table"]
TableNodes(g) == {n \in Nodes(g) : Attr(g, n).type = "table"}

\* ------------------------------------------------------------------------
\* nx.topological_sort: a generator that yields a node once no edge from a
\* node not yet yielded enters it (a self-loop counts in the in-degree), and
\* raises NetworkXUnfeasible when nodes are left and none can be yielded.
\* Which of several such nodes comes first depends on the library version,
\* so any of them may.
\* ------------------------------------------------------------------------
\* a plausible slip: in-degree that does not count self-loops
ZeroIndegreeNoLoops(g, rem) ==
    {n \in rem : \A m \in rem : m # n => <<m, n>> \notin g.edge}

\* a plausible slip: nodes in any order
ZeroIndegreeAny(g, rem) == rem

\* the nodes of rem with no edge from a node of rem
ZeroIndegree(g, rem) == {n \in rem : \A m \in rem : <<m, n>> \notin g.edge}


\* ------------------------------------------------------------------------
\* The files of one run
\* ------------------------------------------------------------------------
table_files == <<"customer.sql", "product.sql", "order.sql">>

view_files == <<"customer_order_summary.sql", "product_sales_overview.sql",
                "customer_order_total_percentage.sql">>

\* ids that the markers of the explored view files name
MarkerIds == {<<"a">>, <<"b">>}

Marker(id) == <<"@", "@">> \o id \o <<"@", "@">>

\* the text of a view file: a header (possibly none), then markers
RECURSIVE Body(_, _)
Body(ids, k) ==
    IF k > Len(ids) THEN <<>> ELSE <<" ">> \o Marker(ids[k]) \o Body(ids, k + 1)

\* the contents explored for a table file: a table a, and no CREATE at all
TableTexts ==
    { CREATE \o <<" ">> \o OR \o <<" ">> \o REPLACE \o <<" ">> \o TABLE \o <<" ", "a">>,
      <<"D", "R", "O", "P", " ">> \o TABLE \o <<" ", "a">> }

\* the headers explored for a view file: views a and b, a view whose name
\* is the word None, and no header
ViewHeaders ==
    { CREATE \o <<" ">> \o VIEW \o <<" ", "a">>,
      CREATE \o <<" ">> \o OR \o <<" ">> \o REPLACE \o <<" ">> \o VIEW \o <<" ", "b">>,
      CREATE \o <<" ">> \o VIEW \o <<" ", "N", "o", "n", "e">>,
      <<>> }

IdSeqs == UNION {[1..n -> MarkerIds] : n \in 0..MaxMarkers}

\* the marker sequences of the view files, MaxMarkers markers in all
RECURSIVE TotalLen(_, _)
TotalLen(f, k) == IF k > Len(f) THEN 0 ELSE Len(f[k]) + TotalLen(f, k + 1)

MarkerPlans ==
    {f \in [1..Len(view_files) -> IdSeqs] : TotalLen(f, 1) <= MaxMarkers}

\* ./graph.svg before line 77 writes it
NoFile == [node |-> <<>>, attr |-> <<>>, edge |-> {}, missing |-> TRUE]

Header == <<"Deployment order of views:">>

VARIABLES
    disk_tables,   \* contents of table_files, by position
    disk_views,    \* contents of view_files, by position
    pc,            \* the statement of __main__ that runs next
    table_sql,     \* line 74
    view_sql,      \* line 75
    graph,         \* line 76, pruned at line 79
    svg,           \* what ./graph.svg depicts, NoFile before it is written
    stdout,        \* the lines printed so far
    rest,          \* the nodes the topological_sort generator has not yielded
    sql,           \* a text given to get_identifiers on its own
    pieces,        \* the markers and separators sql was written from
    identifiers    \* get_identifiers(sql), Null before the call

vars == <<disk_tables, disk_views, pc, table_sql, view_sql, graph, svg, stdout,
          rest, sql, pieces, identifiers>>

mainVars == <<disk_tables, disk_views, pc, table_sql, view_sql, graph, svg,
              stdout, rest>>

idVars == <<sql, pieces, identifiers>>

Init ==
    /\ disk_tables \in [1..Len(table_files) -> TableTexts]
    /\ \E h \in [1..Len(view_files) -> ViewHeaders], m \in MarkerPlans :
           disk_views = [k \in 1..Len(view_files) |-> h[k] \o Body(m[k], 1)]
    /\ pc = "read_tables"
    /\ table_sql = <<>>
    /\ view_sql = <<>>
    /\ graph = EmptyGraph
    /\ svg = NoFile
    /\ stdout = <<>>
    /\ rest = {}
    /\ sql = <<>>
    /\ pieces = <<>>
    /\ identifiers = Null

\* line 74: table_sql = [read_file(sql) for sql in table_files]
ReadTables ==
    /\ pc = "read_tables"
    /\ table_sql' = disk_tables
    /\ pc' = "read_views"
    /\ UNCHANGED <<disk_tables, disk_views, view_sql, graph, svg, stdout, rest>>
    /\ UNCHANGED idVars

\* line 75: view_sql = [read_file(sql) for sql in view_files]
ReadViews ==
    /\ pc = "read_views"
    /\ view_sql' = disk_views
    /\ pc' = "build"
    /\ UNCHANGED <<disk_tables, disk_views, table_sql, graph, svg, stdout, rest>>
    /\ UNCHANGED idVars

\* a plausible slip: files opened lazily, while the order is being printed
ReadFailLate ==
    /\ pc \in {"read_tables", "read_views", "sort"}
    /\ pc' = "io_error"
    /\ UNCHANGED <<disk_tables, disk_views, table_sql, view_sql, graph, svg,
                   stdout, rest>>
    /\ UNCHANGED idVars

\* lines 68-70: open() or read() raises inside one of the two comprehensions;
\* the exception is not caught and ends the run
ReadFail ==
    /\ pc \in {"read_tables", "read_views"}
    /\ pc' = "io_error"
    /\ UNCHANGED <<disk_tables, disk_views, table_sql, view_sql, graph, svg,
                   stdout, rest>>
    /\ UNCHANGED idVars

\* line 76
Build ==
    /\ pc = "build"
    /\ graph' = generate_dependency_graph(table_sql, view_sql)
    /\ pc' = "render"
    /\ UNCHANGED <<disk_tables, disk_views, table_sql, view_sql, svg, stdout, rest>>
    /\ UNCHANGED idVars

\* line 77: the diagram shows the graph as it is now
WriteSvg ==
    /\ pc = "render"
    /\ svg' = graph
    /\ pc' = "prune"
    /\ UNCHANGED <<disk_tables, disk_views, table_sql, view_sql, graph, stdout, rest>>
    /\ UNCHANGED idVars

\* lines 79-81
RemoveTables ==
    /\ pc = "prune"
    /\ graph' = remove_nodes_from(graph, TableNodes(graph))
    /\ pc' = "header"
    /\ UNCHANGED <<disk_tables, disk_views, table_sql, view_sql, svg, stdout, rest>>
    /\ UNCHANGED idVars

\* lines 82-83: the header line, then the generator is created
PrintHeader ==
    /\ pc = "header"
    /\ stdout' = Append(stdout, Header)
    /\ rest' = Nodes(graph)
    /\ pc' = "sort"
    /\ UNCHANGED <<disk_tables, disk_views, table_sql, view_sql, graph, svg>>
    /\ UNCHANGED idVars

\* lines 83-84: the generator yields a node and the loop body prints it
PrintView ==
    /\ pc = "sort"
    /\ \E view \in ZeroIndegree(graph, rest) :
           /\ stdout' = Append(stdout, view)
           /\ rest' = rest \ {view}
    /\ UNCHANGED <<disk_tables, disk_views, pc, table_sql, view_sql, graph, svg>>
    /\ UNCHANGED idVars

\* line 83: the generator is exhausted and the script ends
SortDone ==
    /\ pc = "sort"
    /\ rest = {}
    /\ pc' = "done"
    /\ UNCHANGED <<disk_tables, disk_views, table_sql, view_sql, graph, svg,
                   stdout, rest>>
    /\ UNCHANGED idVars

\* line 83: the generator raises NetworkXUnfeasible, which is not caught
SortUnfeasible ==
    /\ pc = "sort"
    /\ rest # {}
    /\ ZeroIndegree(graph, rest) = {}
    /\ pc' = "cycle_error"
    /\ UNCHANGED <<disk_tables, disk_views, table_sql, view_sql, graph, svg,
                   stdout, rest>>
    /\ UNCHANGED idVars

Next ==
    \/ ReadTables
    \/ ReadViews
    \/ ReadFail
    \/ Build
    \/ WriteSvg
    \/ RemoveTables
    \/ PrintHeader
    \/ PrintView
    \/ SortDone
    \/ SortUnfeasible

Spec == Init /\ [][Next]_vars


\* ------------------------------------------------------------------------
\* get_identifiers on a text written marker by marker
\* ------------------------------------------------------------------------
\* ids of the markers written into sql
TextIds == MarkerIds \cup {<<"b", ".", "a", "_", "1">>}

\* characters written between markers: one outside the class of the
\* pattern, one inside it
Separators == {" ", "."}

InitIds ==
    /\ disk_tables = [k \in 1..Len(table_files) |-> <<>>]
    /\ disk_views = [k \in 1..Len(view_files) |-> <<>>]
    /\ pc = "write"
    /\ table_sql = <<>>
    /\ view_sql = <<>>
    /\ graph = EmptyGraph
    /\ svg = NoFile
    /\ stdout = <<>>
    /\ rest = {}
    /\ sql = <<>>
    /\ pieces = <<>>
    /\ identifiers = Null

WriteMarker ==
    /\ pc = "write"
    /\ Len(pieces) < MaxPieces
    /\ \E id \in TextIds :
           /\ sql' = sql \o Marker(id)
           /\ pieces' = Append(pieces, [marker |-> TRUE, text |-> id])
    /\ UNCHANGED identifiers
    /\ UNCHANGED mainVars

WriteSeparator ==
    /\ pc = "write"
    /\ Len(pieces) < MaxPieces
    /\ \E c \in Separators :
           /\ sql' = sql \o <<c>>
           /\ pieces' = Append(pieces, [marker |-> FALSE, text |-> <<c>>])
    /\ UNCHANGED identifiers
    /\ UNCHANGED mainVars

\* lines 33-35
CallGetIdentifiers ==
    /\ pc = "write"
    /\ identifiers' = get_identifiers(sql)
    /\ pc' = "returned"
    /\ UNCHANGED <<sql, pieces>>
    /\ UNCHANGED <<disk_tables, disk_views, table_sql, view_sql, graph, svg,
                   stdout, rest>>

NextIds == WriteMarker \/ WriteSeparator \/ CallGetIdentifiers

SpecIds == InitIds /\ [][NextIds]_vars

\* ------------------------------------------------------------------------
\* Definitions the properties use
\* ------------------------------------------------------------------------
\* the view lines printed after the header
Printed == IF stdout = <<>> THEN <<>> ELSE Tail(stdout)

PrintedSet == Range(Printed)

Position(line) == CHOOSE k \in 1..Len(Printed) : Printed[k] = line

RECURSIVE Descendants(_, _)
Descendants(g, S) ==
    LET S2 == S \cup {e[2] : e \in {d \in g.edge : d[1] \in S}}
    IN  IF S2 = S THEN S ELSE Descendants(g, S2)

Successors(g, n) == {e[2] : e \in {d \in g.edge : d[1] = n}}

\* the nodes that lie on a cycle of g
CycleNodes(g) == {n \in Nodes(g) : n \in Descendants(g, Successors(g, n))}

HasCycle(g) == CycleNodes(g) # {}

\* the statements after the pruning of line 79
Pruned == pc \in {"header", "sort", "done", "cycle_error"}

\* the names in the order generate_dependency_graph meets them: for each
\* view text its definition name, then its identifiers
RECURSIVE NamesMet(_, _)
NamesMet(texts, k) ==
    IF k > Len(texts) THEN <<>>
    ELSE <<get_view_name(texts[k])>> \o get_identifiers(texts[k])
         \o NamesMet(texts, k + 1)

\* the identifiers of a sequence without its repetitions
RECURSIVE Once(_, _)
Once(ids, k) ==
    IF k > Len(ids) THEN <<>>
    ELSE IF \E j \in 1..(k - 1) : ids[j] = ids[k] THEN Once(ids, k + 1)
    ELSE <<ids[k]>> \o Once(ids, k + 1)

\* a view text of the explored files with each of its markers written once
WrittenOnce(text) ==
    LET how == CHOOSE hm \in ViewHeaders \X IdSeqs : text = hm[1] \o Body(hm[2], 1)
    IN  how[1] \o Body(Once(how[2], 1), 1)


\* str(name), as print and the f-string of quote format it
Str(name) == IF name = Null THEN <<"N", "o", "n", "e">> ELSE name

\* the names the view texts define and refer to
NamesOfRun == Range(NamesMet(view_sql, 1))

\* the ids of the markers that were written into sql, in order
RECURSIVE MarkersWritten(_, _)
MarkersWritten(ps, k) ==
    IF k > Len(ps) THEN <<>>
    ELSE (IF ps[k].marker THEN <<ps[k].text>> ELSE <<>>) \o MarkersWritten(ps, k + 1)

\* ------------------------------------------------------------------------
\* Properties
\* ------------------------------------------------------------------------

\* C1: when the pruned graph is acyclic the run does not fail, every node of
\* the pruned graph is printed exactly once, and for every edge (A -> B) of
\* the pruned graph A is printed strictly before B.
C1_TopologicalOrder ==
    /\ (Pruned /\ ~HasCycle(graph)) => pc # "cycle_error"
    /\ pc \in {"sort", "done"} =>
           /\ Len(Printed) = Cardinality(PrintedSet)
           /\ PrintedSet \subseteq Nodes(graph)
           /\ \A e \in graph.edge :
                  e[2] \in PrintedSet =>
                      /\ e[1] \in PrintedSet
                      /\ Position(e[1]) < Position(e[2])
    /\ pc = "done" => PrintedSet = Nodes(graph)

C1_Witness ==
    /\ pc = "done"
    /\ Len(Printed) = 3
    /\ \E e \in graph.edge : e[1] # e[2]

\* C2: when the pruned graph has a cycle, no view name has been printed by
\* the time the sort fails.
C2_NoPartialOrder == pc = "cycle_error" => Printed = <<>>

\* C3: when the pruned graph has a cycle (a self-loop or a loop through
\* other views) the sort never completes: the nodes of the cycles are never
\* yielded, and the run ends in the cyclic-dependency error.  The error is
\* raised only for a cycle of the pruned graph, none of whose nodes the
\* diagram shows as a table.
C3_CycleEndsInError ==
    /\ (Pruned /\ HasCycle(graph)) =>
           /\ pc # "done"
           /\ pc \in {"sort", "cycle_error"} => CycleNodes(graph) \subseteq rest
    /\ pc = "cycle_error" =>
           /\ HasCycle(graph)
           /\ \A n \in CycleNodes(graph) : Attr(svg, n).type = "view"

C3_Witness ==
    /\ pc = "cycle_error"
    /\ \E m, n \in Nodes(graph) :
           m # n /\ <<m, n>> \in graph.edge /\ <<n, m>> \in graph.edge

\* C4: after the pruning the graph holds no table-typed node and no edge
\* that touches one, no printed line is a table-typed node, and the printed
\* lines of a completed run are exactly the nodes of the pruned graph.
C4_NoTablePrinted ==
    /\ Pruned =>
           /\ \A n \in Nodes(graph) : Attr(graph, n).type # "table"
           /\ Nodes(graph) = {n \in Nodes(svg) : Attr(svg, n).type = "view"}
           /\ \A e \in graph.edge : e[1] \in Nodes(graph) /\ e[2] \in Nodes(graph)
    /\ \A line \in PrintedSet :
           line \in Nodes(svg) /\ Attr(svg, line).type = "view"
    /\ pc = "done" => PrintedSet = Nodes(graph)

C4_Witness ==
    /\ pc = "done"
    /\ Printed # <<>>
    /\ \E t \in Nodes(svg) :
           /\ Attr(svg, t).type = "table"
           /\ Cardinality({e \in svg.edge : e[1] = t}) >= 2

\* C5: in the graph that generate_dependency_graph builds, a node's type is
\* table if and only if its name is a name that was extracted from one of
\* the table texts; a failed extraction matches no name.
C5_TableIffExtracted ==
    pc = "render" =>
        \A n \in Nodes(graph) :
            Attr(graph, n).type = "table"
            <=> \E k \in 1..Len(table_sql) :
                    /\ get_table_name(table_sql[k]) # Null
                    /\ n = quote(get_table_name(table_sql[k]))

\* C6: every printed view line is the name as it was extracted from the SQL
\* text, without the quote characters of the node key.
C6_PrintedUnquoted ==
    \A line \in PrintedSet : line \in {Str(n) : n \in NamesOfRun}

\* C7: get_identifiers returns one element per marker of the text, each the
\* id the marker encloses, in the order of the markers, whatever stands
\* between two markers.
C7_OnePerMarker ==
    pc = "returned" => identifiers = MarkersWritten(pieces, 1)

\* C8: the graph built from the view texts is the graph built from the same
\* texts with every marker written once, and it holds no node twice.
C8_Idempotent ==
    pc = "render" =>
        /\ graph = generate_dependency_graph(
                       table_sql,
                       [k \in 1..Len(view_sql) |-> WrittenOnce(view_sql[k])])
        /\ Len(graph.node) = Cardinality(Nodes(graph))

C8_Witness ==
    /\ pc = "render"
    /\ \E k \in 1..Len(view_sql) :
           LET ids == get_identifiers(view_sql[k])
           IN  Len(ids) = 2 /\ ids[1] = ids[2]
    /\ Len(NamesMet(view_sql, 1)) > Len(graph.node) + 1

\* C9: while a file can still fail to open, and after one has, the graph is
\* not built, the diagram is not written and nothing is printed; whatever
\* is built, written or printed comes after every file was read.
C9_ReadFailureBeforeOutput ==
    /\ pc \in {"read_tables", "read_views", "io_error"} =>
           graph = EmptyGraph /\ svg = NoFile /\ stdout = <<>>
    /\ (graph # EmptyGraph \/ svg # NoFile \/ stdout # <<>>) =>
           table_sql = disk_tables /\ view_sql = disk_views

C9_Witness ==
    /\ pc = "io_error"
    /\ table_sql = disk_tables
    /\ view_sql = <<>>

\* C10: the lines of a completed run are the names (as node keys) that the
\* view texts define or refer to, less the names classified as table.
C10_NamesLessTables ==
    pc = "done" =>
        PrintedSet =
            {quote(n) : n \in {m \in NamesOfRun :
                node_type_of(m, table_names_of(table_sql)) = "view"}}

====
